---- MODULE Spec2Model ----
(***************************************************************************)
(* Neural Memory MCP server: the /sse endpoint (auth guard, envelope       *)
(* generator, method dispatcher, tool handlers) over the SQLite notes      *)
(* table and the lazily loaded embedding model.                            *)
(*                                                                         *)
(* JSON objects are records whose DOMAIN is the set of keys present, so    *)
(* dict.get(key, default) is Get(d, key, default).  A JSON value that is   *)
(* not an object is the record NotADict.                                   *)
(***************************************************************************)
EXTENDS Integers, Sequences, FiniteSets, TLC

\* ------------------------------------------------------------------ bounds
MaxId == 2        \* rows the notes table may ever be given (AUTOINCREMENT cap)
MaxRows == 3      \* rows of the stores a search is run against

Procs == {1, 2}   \* request threads of the threaded Flask server
SeqProcs == {1}   \* one request at a time

\* ------------------------------------------------------------- JSON values
EmptyObj == << >>
NotADict == [json_array |-> TRUE]
IsDict(v) == "json_array" \notin DOMAIN v
Has(d, k) == k \in DOMAIN d
Get(d, k, default) == IF k \in DOMAIN d THEN d[k] ELSE default

\* --------------------------------------------------------------- auth guard
API_KEY == "change_me_in_production"
WrongKey == "not_the_key"
Keys == {"", API_KEY, WrongKey}

\* hashlib.sha256(s.encode()).hexdigest(): a digest, never the text itself
Sha256(s) == <<"sha256", s>>
API_KEY_HASH == Sha256(API_KEY)
compare_digest(a, b) == a = b

\* An Authorization header value is scheme ++ rest; startswith('Bearer ')
\* looks at the scheme and auth_header[7:] is the rest.
BearerHeader(tok) == [scheme |-> "Bearer ", rest |-> tok]
AuthHeaders == {BearerHeader(API_KEY), BearerHeader(WrongKey),
                [scheme |-> "Basic ", rest |-> API_KEY]}

QueryArgs == {EmptyObj} \cup [api_key : Keys]
Headers == {EmptyObj} \cup [Authorization : AuthHeaders]
HttpRequests == [args : QueryArgs, headers : Headers]

\* verify_auth without the test of the scheme: any Authorization header is
\* taken as a token.
verify_auth_anyscheme(req) ==
    IF Has(req.args, "api_key") /\ req.args.api_key # ""
    THEN compare_digest(Sha256(req.args.api_key), API_KEY_HASH)
    ELSE IF Has(req.headers, "Authorization")
         THEN compare_digest(Sha256(req.headers.Authorization.rest), API_KEY_HASH)
         ELSE FALSE

verify_auth(req) ==
    IF Has(req.args, "api_key") /\ req.args.api_key # ""
    THEN compare_digest(Sha256(req.args.api_key), API_KEY_HASH)
    ELSE IF /\ Has(req.headers, "Authorization")
            /\ req.headers.Authorization.scheme = "Bearer "
         THEN compare_digest(Sha256(req.headers.Authorization.rest), API_KEY_HASH)
         ELSE FALSE

\* ------------------------------------------------------- embedding provider
Texts == {"", "a", "a.", "b"}

\* StableEmbeddingModel.encode([text])[0] for the loaded model version:
\* deterministic, one fixed-dimension vector per text.  "a." is a text next
\* to "a": its vector is not the vector of "a" and lies within 0.01 rad of it.
encode(text) ==
    CASE text = "a" -> <<1, 0>>
      [] text = "a." -> <<120, 1>>
      [] text = "b" -> <<0, 1>>
      [] OTHER -> <<1, 1>>

dot(u, v) == u[1] * v[1] + u[2] * v[2]

\* sim >= 0.4 for sim = dot(q, e) / (norm(q) * norm(e)), in integers
AtLeastThreshold(q, e) ==
    /\ dot(q, e) > 0
    /\ 25 * dot(q, e) * dot(q, e) >= 4 * dot(q, q) * dot(e, e)

\* <<quotient, remainder>> of n * 10^digits by d, digit by digit
RECURSIVE LongDivision(_, _, _)
LongDivision(n, d, digits) ==
    IF digits = 0 THEN <<n \div d, n % d>>
    ELSE LET prev == LongDivision(n, d, digits - 1)
         IN  <<prev[1] * 10 + (prev[2] * 10) \div d, (prev[2] * 10) % d>>

\* round(sim, 4) as an integer number of 1/10000, for sim >= 0.4: the k with
\* (k - 1/2)/10000 <= sim < (k + 1/2)/10000, found on 4 * 10^8 * sim^2
Round4(q, e) ==
    LET c == LongDivision(4 * dot(q, e) * dot(q, e), dot(q, q) * dot(e, e), 8)[1]
    IN  CHOOSE k \in 4000..10000 :
            (2 * k - 1) * (2 * k - 1) <= c /\ c < (2 * k + 1) * (2 * k + 1)

Vectors == {encode(t) : t \in Texts}
QueryVectors == {encode(t) : t \in {"", "a", "b"}}

\* round(sim, 4) of every query vector with every vector that passes the
\* threshold (else 0)
similarity == [q \in QueryVectors, e \in Vectors |->
                 IF AtLeastThreshold(q, e) THEN Round4(q, e) ELSE 0]

\* ------------------------------------------------------------ request bodies
Ids == {1, 7}
Contents == {"", "a", "b"}
Categories == {"", "work"}
NoteIdArgs == 0..MaxId
Queries == {"a"}
Limits == {0, 1}

Ext(o, k, v) == [f \in DOMAIN o \cup {k} |-> IF f = k THEN v ELSE o[f]]
WithOptId(S) == S \cup {Ext(o, "id", i) : o \in S, i \in Ids}

SearchArgs == {EmptyObj} \cup [query : Queries] \cup [query : Queries, limit : Limits]
AddArgs == {EmptyObj} \cup [content : Contents] \cup [category : Categories]
              \cup [content : Contents, category : Categories]
UpdateArgs == {EmptyObj} \cup [note_id : NoteIdArgs] \cup [content : Contents]
              \cup [note_id : NoteIdArgs, content : Contents]
              \cup [note_id : NoteIdArgs, content : Contents, category : Categories]
DeleteArgs == {EmptyObj} \cup [note_id : NoteIdArgs]

Calls(name, ArgsSet) ==
    {[method |-> "tools/call", params |-> [name |-> name, arguments |-> a]] : a \in ArgsSet}

Objects ==
    {EmptyObj}
    \cup [method : {"initialize", "tools/list", "resources/list", "ping"}]
    \cup {[method |-> "tools/call"]}
    \cup {[method |-> "tools/call", params |-> NotADict]}
    \cup {[method |-> "tools/call", params |-> [name |-> "bogus_tool"]]}
    \cup {[method |-> "tools/call", params |-> [name |-> "neural_stats"]]}
    \cup {[method |-> "tools/call", params |-> [name |-> "add_note", arguments |-> NotADict]]}
    \cup Calls("search_neural_memory", SearchArgs)
    \cup Calls("add_note", AddArgs)
    \cup Calls("update_note", UpdateArgs)
    \cup Calls("delete_note", DeleteArgs)

\* What request.get_json() is called on: a GET has no body; a POST body is a
\* JSON object, a JSON array holding the object, or text cut short.
GetBody == [kind |-> "GET", json |-> EmptyObj]
Bodies ==
    {GetBody}
    \cup [kind : {"object"}, json : WithOptId(Objects)]
    \cup [kind : {"array", "malformed"}, json : WithOptId({[method |-> "initialize"]})]

\* ------------------------------------------------------------------- state
VARIABLES
    notes,            \* the notes table: id -> row, over the ids of its rows
    sqlite_sequence,  \* AUTOINCREMENT's record of the largest id ever given
    embedding_model,  \* the module global: "None" or "Loaded"
    pc,               \* per thread: where its request stands
    request,          \* per thread: the HTTP request's query args and headers
    body,             \* per thread: the HTTP body read by generate
    result,           \* per thread: what handle_mcp_request returned
    existing,         \* per thread: the row fetched by the handler's SELECT
    reply,            \* per thread: non-streamed HTTP replies (the 401)
    stream,           \* per thread: envelopes yielded on the event stream
    trace,            \* per thread: what was done on behalf of the request
    deleted,          \* ids whose DELETE was committed
    calibration_file, \* CALIBRATION_FILE on disk
    model_version,    \* the weights EMBEDDING_MODEL resolves to in this run
    boot,             \* where main() stands
    saved,            \* what load_calibration returned to the check
    status,           \* what the startup check reported
    recal             \* where a run of embedding_check.py --recalibrate stands

vars == <<notes, sqlite_sequence, embedding_model, pc, request, body,
          result, existing, reply, stream, trace, deleted,
          calibration_file, model_version, boot, saved, status, recal>>

monitor == <<calibration_file, model_version, boot, saved, status, recal>>

store == <<notes, sqlite_sequence>>

NoRequest == [args |-> EmptyObj, headers |-> EmptyObj]

\* ----------------------------------------------------------------- results
Error(code, message) == [error |-> [code |-> code, message |-> message]]

\* The except clause reporting invalid params instead.
InternalAsInvalidParams == Error(-32602, "exception")

\* except Exception as e: {'error': {'code': -32603, 'message': str(e)}}
Internal == Error(-32603, "exception")
ToolText(text) == [content |-> <<[type |-> "text", text |-> text]>>]

InitializeResult ==
    [protocolVersion |-> "2024-11-05",
     serverInfo |-> [name |-> "neural-memory", version |-> "1.0.0"]]
ToolNames == <<"search_neural_memory", "neural_stats", "add_note",
               "update_note", "delete_note">>
ToolsListResult == [tools |-> ToolNames]

IsError(r) == Has(r, "error")
Code(r) == r.error.code

\* --------------------------------------------------------- request fields
MethodOf(d) == Get(d, "method", "initialize")
ParamsOf(d) == Get(d, "params", EmptyObj)
ArgsOf(d) == Get(ParamsOf(d), "arguments", EmptyObj)
ToolOf(d) == Get(ParamsOf(d), "name", "None")
IsCallOf(d, tool) ==
    MethodOf(d) = "tools/call" /\ IsDict(ParamsOf(d)) /\ ToolOf(d) = tool

data(p) == body[p].json
Method(p) == MethodOf(data(p))
Params(p) == ParamsOf(data(p))
ReqId(p) == Get(data(p), "id", 1)
Args(p) == ArgsOf(data(p))
Tool(p) == ToolOf(data(p))
IsCall(p, tool) == IsCallOf(data(p), tool)

\* Python truthiness of args.get(key): present and neither 0 nor ''
TruthyInt(args, k) == Has(args, k) /\ args[k] # 0
TruthyStr(args, k) == Has(args, k) /\ args[k] # ""

\* ------------------------------------------------------------- notes table
Max(S) == IF S = {} THEN 0 ELSE CHOOSE m \in S : \A x \in S : x <= m
Min(a, b) == IF a <= b THEN a ELSE b

\* A plain INTEGER PRIMARY KEY: the largest rowid in the table plus one.
NextRowIdNoAutoincrement(table, seq) == Max(DOMAIN table) + 1

\* INTEGER PRIMARY KEY AUTOINCREMENT
NextRowId(table, seq) == Max(DOMAIN table \cup {seq}) + 1

Insert(table, id, row) ==
    [i \in DOMAIN table \cup {id} |-> IF i = id THEN row ELSE table[i]]

\* An UPDATE that sets content and category and leaves the embedding and the
\* timestamp to a later statement
UpdateTextOnly(table, id, row) ==
    [i \in DOMAIN table |->
        IF i = id
        THEN [table[i] EXCEPT !.content = row.content, !.category = row.category]
        ELSE table[i]]

\* UPDATE notes SET content, category, timestamp, embedding_vector WHERE id = ?
Update(table, id, row) ==
    [i \in DOMAIN table |-> IF i = id THEN row ELSE table[i]]

Delete(table, id) == [i \in DOMAIN table \ {id} |-> table[i]]

\* The table after an UPDATE that raises on a connection in autocommit mode:
\* the row is written all the same
Autocommitted(table, id, row) ==
    [i \in DOMAIN table |-> IF i = id THEN row ELSE table[i]]

\* The table after an UPDATE whose connection is dropped before commit(): the
\* open transaction is rolled back
Uncommitted(table, id, row) == table

Row(content, category, timestamp, embedding) ==
    [content |-> content, category |-> category, timestamp |-> timestamp,
     embedding_vector |-> embedding]

\* datetime.now().isoformat(): written with the row, read back by no handler
now == "now"

\* ------------------------------------------------------ calibration monitor
CALIBRATION_PHRASES ==
    <<"The quick brown fox jumps over the lazy dog.",
      "Semantic search uses vector embeddings.",
      "Python programming and machine learning.">>

\* 0.99, in units of 1/10000
SIMILARITY_THRESHOLD == 9900

\* The weights the model name can resolve to from one run to the next: "v1";
\* "v2", which moves the second phrase only, past the threshold; "v3", which
\* moves every phrase a little, within the threshold; "v4", which turns the
\* third phrase to a right angle.
Versions == {"v1", "v2", "v3", "v4"}

\* StableEmbeddingModel.encode(CALIBRATION_PHRASES)[i] under the weights
encode_phrase(version, i) ==
    CASE i = 1 -> IF version = "v3" THEN <<10, 1>> ELSE <<1, 0>>
      [] i = 2 -> IF version = "v2" THEN <<1, 5>>
                  ELSE IF version = "v3" THEN <<1, 10>> ELSE <<0, 1>>
      [] OTHER -> IF version = "v4" THEN <<1, -1>>
                  ELSE IF version = "v3" THEN <<10, 11>> ELSE <<1, 1>>

\* cosine_similarity(a, b) in units of 1/10000, rounded down
cosine_similarity(a, b) ==
    IF dot(a, b) <= 0 THEN 0
    ELSE LET c == LongDivision(dot(a, b) * dot(a, b), dot(a, a) * dot(b, b), 8)[1]
         IN  CHOOSE m \in 0..10000 : m * m <= c /\ c < (m + 1) * (m + 1)

compute_calibration(version) ==
    [phrases |-> CALIBRATION_PHRASES,
     embeddings |-> [i \in 1..Len(CALIBRATION_PHRASES) |-> encode_phrase(version, i)]]

\* The file: not there, opened for writing and nothing dumped yet, or a dump
Absent == [exists |-> FALSE]
Truncated == [exists |-> TRUE, text |-> ""]
Dumped(d) == [exists |-> TRUE, json |-> d]
Baselines == {compute_calibration(v) : v \in Versions}
Files == {Absent, Truncated} \cup {Dumped(b) : b \in Baselines}

\* load_calibration's None
None == [none |-> TRUE]

\* for i, (curr, saved_emb) in enumerate(zip(current, saved['embeddings']))
similarities(version, baseline) ==
    [i \in 1..Min(Len(CALIBRATION_PHRASES), Len(baseline.embeddings)) |->
        cosine_similarity(encode_phrase(version, i), baseline.embeddings[i])]

\* The average of the similarities, in the place of their minimum
avg_sim(sims) ==
    LET RECURSIVE Sum(_)
        Sum(n) == IF n = 0 THEN 0 ELSE sims[n] + Sum(n - 1)
    IN  Sum(Len(sims)) \div Len(sims)

\* min(similarities)
min_sim(sims) ==
    CHOOSE m \in {sims[i] : i \in 1..Len(sims)} : \A i \in 1..Len(sims) : m <= sims[i]

\* The status check_consistency returns when it found a baseline
Compared(version, baseline) ==
    IF min_sim(similarities(version, baseline)) >= SIMILARITY_THRESHOLD
    THEN "Consistent" ELSE "DriftDetected"

\* The status for every version of the weights against every baseline
check_consistency == [v \in Versions, b \in Baselines |-> Compared(v, b)]

\* The server is up: its first run found no baseline and wrote one
Init ==
    /\ notes = << >>
    /\ sqlite_sequence = 0
    /\ embedding_model = "None"
    /\ pc = [p \in Procs |-> "Idle"]
    /\ request = [p \in Procs |-> NoRequest]
    /\ body = [p \in Procs |-> GetBody]
    /\ result = [p \in Procs |-> EmptyObj]
    /\ existing = [p \in Procs |-> << >>]
    /\ reply = [p \in Procs |-> << >>]
    /\ stream = [p \in Procs |-> << >>]
    /\ trace = [p \in Procs |-> {}]
    /\ deleted = {}
    /\ calibration_file = Dumped(compute_calibration("v1"))
    /\ model_version = "v1"
    /\ boot = "Serving"
    /\ saved = None
    /\ status = "Initialized"
    /\ recal = "Idle"

\* ------------------------------------------------------------ step helpers
Goto(p, where) == pc' = [pc EXCEPT ![p] = where]
Did(p, what) == trace' = [trace EXCEPT ![p] = @ \cup what]
Return(p, r) == result' = [result EXCEPT ![p] = r] /\ Goto(p, "Emit")

\* Without an except clause: the exception ends the generator with nothing
\* yielded.
RaiseUncaught(p, what) ==
    /\ result' = [result EXCEPT ![p] = Internal]
    /\ Goto(p, "Done")
    /\ Did(p, what \cup {"raised"})

\* An exception inside handle_mcp_request's try block
Raise(p, what) == Return(p, Internal) /\ Did(p, what \cup {"raised"})

\* Requests that will INSERT a row and have not done so yet
WillInsert(d) == IsCallOf(d, "add_note") /\ IsDict(ArgsOf(d)) /\ TruthyStr(ArgsOf(d), "content")
PendingInserts ==
    Cardinality({q \in Procs :
        pc[q] \in {"Routed", "get_model", "load_model", "add_note"} /\ WillInsert(data(q))})

\* ---------------------------------------------------------------- transport
\* A request arrives on /sse once app.run listens; the thread's previous
\* request, if any, is over.
Receive(p, Reqs) ==
    /\ boot = "Serving"
    /\ pc[p] \in {"Idle", "Done", "Rejected"}
    /\ \E req \in Reqs : request' = [request EXCEPT ![p] = req]
    /\ Goto(p, "Received")
    /\ body' = [body EXCEPT ![p] = GetBody]
    /\ result' = [result EXCEPT ![p] = EmptyObj]
    /\ existing' = [existing EXCEPT ![p] = << >>]
    /\ reply' = [reply EXCEPT ![p] = << >>]
    /\ stream' = [stream EXCEPT ![p] = << >>]
    /\ trace' = [trace EXCEPT ![p] = {}]
    /\ UNCHANGED <<notes, sqlite_sequence, embedding_model, deleted>>
    /\ UNCHANGED monitor

Unauthorized == [status |-> 401, body |-> [error |-> "Unauthorized"]]

\* mcp_sse up to its return: the 401, or the streaming Response
mcp_sse(p) ==
    /\ pc[p] = "Received"
    /\ IF verify_auth(request[p])
       THEN /\ Goto(p, "Authorized")
            /\ Did(p, {"authorized"})
            /\ UNCHANGED reply
       ELSE /\ Goto(p, "Rejected")
            /\ reply' = [reply EXCEPT ![p] = Append(@, Unauthorized)]
            /\ UNCHANGED trace
    /\ UNCHANGED <<notes, sqlite_sequence, embedding_model, request, body,
                   result, existing, stream, deleted>>
    /\ UNCHANGED monitor

\* generate's except branch
ErrorEnvelope(b) == [jsonrpc |-> "2.0", id |-> 1, error |-> Internal.error]

\* generate's try block up to the call of handle_mcp_request: get_json() on
\* a POST, then data.get(...) three times
generate(p, Bs) ==
    /\ pc[p] = "Authorized"
    /\ \E b \in Bs :
        /\ WillInsert(b.json) /\ b.kind = "object" => sqlite_sequence + PendingInserts < MaxId
        /\ body' = [body EXCEPT ![p] = b]
        /\ IF b.kind \in {"GET", "object"}
           THEN /\ Goto(p, "Routed")
                /\ Did(p, {"routed"})
                /\ UNCHANGED stream
           ELSE /\ Goto(p, "Done")
                /\ stream' = [stream EXCEPT ![p] = Append(@, ErrorEnvelope(b))]
                /\ Did(p, {"parse_failed"})
    /\ UNCHANGED <<notes, sqlite_sequence, embedding_model, request,
                   result, existing, reply, deleted>>
    /\ UNCHANGED monitor

\* response = {'jsonrpc': '2.0', 'id': req_id, 'result': result}
Envelope(req_id, r) == [jsonrpc |-> "2.0", id |-> req_id, result |-> r]

\* generate's yield of the response
yield_response(p) ==
    /\ pc[p] = "Emit"
    /\ stream' = [stream EXCEPT ![p] = Append(@, Envelope(ReqId(p), result[p]))]
    /\ Goto(p, "Done")
    /\ UNCHANGED <<notes, sqlite_sequence, embedding_model, request, body,
                   result, existing, reply, trace, deleted>>
    /\ UNCHANGED monitor

\* --------------------------------------------------------------- dispatcher
\* handle_tool_call and the argument checks that open each tool function:
\* what the call returns at once, the tool step it goes on to, or an
\* exception (params or arguments without .get)
handle_tool_call(params) ==
    IF ~IsDict(params) THEN [raise |-> TRUE]
    ELSE LET tool_name == Get(params, "name", "None")
             args == Get(params, "arguments", EmptyObj)
         IN  CASE tool_name = "search_neural_memory" ->
                    IF IsDict(args) THEN [goto |-> "get_model"] ELSE [raise |-> TRUE]
               [] tool_name = "neural_stats" -> [goto |-> "get_stats"]
               [] tool_name = "add_note" ->
                    IF ~IsDict(args) THEN [raise |-> TRUE]
                    ELSE IF ~TruthyStr(args, "content")
                    THEN [return |-> Error(-32602, "Content required")]
                    ELSE [goto |-> "get_model"]
               [] tool_name = "update_note" ->
                    IF ~IsDict(args) THEN [raise |-> TRUE]
                    ELSE IF ~TruthyInt(args, "note_id") \/ ~TruthyStr(args, "content")
                    THEN [return |-> Error(-32602, "Note ID and content required")]
                    ELSE [goto |-> "update_note"]
               [] tool_name = "delete_note" ->
                    IF ~IsDict(args) THEN [raise |-> TRUE]
                    ELSE IF ~TruthyInt(args, "note_id")
                    THEN [return |-> Error(-32602, "Note ID required")]
                    ELSE [goto |-> "delete_note"]
               [] OTHER -> [return |-> Error(-32602, "Unknown tool")]

\* The chain with initialize as its else branch: an unrecognised method is
\* answered like initialize.
RouteDefaultInitialize(method, params) ==
    CASE method = "tools/list" -> [return |-> ToolsListResult]
      [] method = "tools/call" -> handle_tool_call(params)
      [] OTHER -> [return |-> InitializeResult]

\* The if/elif chain of handle_mcp_request
Route(method, params) ==
    CASE method = "initialize" -> [return |-> InitializeResult]
      [] method = "tools/list" -> [return |-> ToolsListResult]
      [] method = "tools/call" -> handle_tool_call(params)
      [] OTHER -> [return |-> Error(-32601, "Method not found")]

\* handle_mcp_request from its entry to the first step that reads shared state
handle_mcp_request(p) ==
    /\ pc[p] = "Routed"
    /\ LET r == Route(Method(p), Params(p))
       IN  CASE Has(r, "raise") -> Raise(p, {"dispatched"})
             [] Has(r, "return") -> Return(p, r.return) /\ Did(p, {"dispatched"})
             [] OTHER -> /\ Goto(p, r.goto)
                         /\ Did(p, {"dispatched"})
                         /\ UNCHANGED result
    /\ UNCHANGED <<notes, sqlite_sequence, embedding_model, request, body,
                   existing, reply, stream, deleted>>
    /\ UNCHANGED monitor

\* ------------------------------------------------------- embedding provider
\* Where a tool goes once it holds the model
AfterModel(p) ==
    CASE IsCall(p, "search_neural_memory") -> "search_notes"
      [] IsCall(p, "add_note") -> "add_note"
      [] OTHER -> "update_write"

\* get_model: the test of the global
get_model(p) ==
    /\ pc[p] = "get_model"
    /\ Goto(p, IF embedding_model = "None" THEN "load_model" ELSE AfterModel(p))
    /\ Did(p, {"provider"})
    /\ UNCHANGED <<notes, sqlite_sequence, embedding_model, request, body,
                   result, existing, reply, stream, deleted>>
    /\ UNCHANGED monitor

\* get_model: StableEmbeddingModel() and the assignment of the global; the
\* constructor raises when the model cannot be loaded
load_model(p) ==
    /\ pc[p] = "load_model"
    /\ \/ /\ embedding_model' = "Loaded"
          /\ Goto(p, AfterModel(p))
          /\ UNCHANGED <<result, trace>>
       \/ /\ Raise(p, {})
          /\ UNCHANGED embedding_model
    /\ UNCHANGED <<notes, sqlite_sequence, request, body, existing,
                   reply, stream, deleted>>
    /\ UNCHANGED monitor

\* ------------------------------------------------------------------ search
RECURSIVE Ascending(_)
Ascending(S) ==
    IF S = {} THEN << >>
    ELSE LET m == CHOOSE x \in S : \A y \in S : x <= y
         IN  <<m>> \o Ascending(S \ {m})

\* list.sort(key=similarity, reverse=True): stable, so equal keys keep their order
RECURSIVE SortBySimilarity(_)
SortBySimilarity(rows) ==
    IF rows = << >> THEN << >>
    ELSE LET n == Len(rows)
             last == rows[n]
             front == SortBySimilarity(SubSeq(rows, 1, n - 1))
             k == Cardinality({i \in 1..Len(front) : front[i].similarity >= last.similarity})
         IN  SubSeq(front, 1, k) \o <<last>> \o SubSeq(front, k + 1, Len(front))

\* results[:limit]
Slice(rows, limit) ==
    IF limit >= 0 THEN SubSeq(rows, 1, Min(limit, Len(rows)))
    ELSE SubSeq(rows, 1, IF Len(rows) + limit > 0 THEN Len(rows) + limit ELSE 0)

\* The rows the SELECT returns that pass the threshold, in rowid order
Matches(table, query_emb) ==
    LET ids == Ascending(DOMAIN table)
        hit(i) == AtLeastThreshold(query_emb, table[i].embedding_vector)
        found == SelectSeq(ids, hit)
    IN  [k \in 1..Len(found) |->
            [id |-> found[k],
             content |-> table[found[k]].content,
             category |-> table[found[k]].category,
             similarity |-> similarity[query_emb, table[found[k]].embedding_vector]]]

SearchText(table, query, limit) ==
    LET results == SortBySimilarity(Matches(table, encode(query)))
    IN  [said |-> "Found", top |-> Slice(results, limit), total |-> Len(results)]

\* search_notes after get_model: encode the query, SELECT, rank
search_notes(p) ==
    /\ pc[p] = "search_notes"
    /\ \/ Raise(p, {})
       \/ Raise(p, {"store"})
       \/ /\ Return(p, ToolText(SearchText(notes, Get(Args(p), "query", ""),
                                           Get(Args(p), "limit", 5))))
          /\ Did(p, {"store"})
    /\ UNCHANGED <<notes, sqlite_sequence, embedding_model, request, body,
                   existing, reply, stream, deleted>>
    /\ UNCHANGED monitor

\* ------------------------------------------------------------------- stats
\* get_stats: SELECT COUNT(*) FROM notes
get_stats(p) ==
    /\ pc[p] = "get_stats"
    /\ \/ Raise(p, {"store"}) /\ UNCHANGED existing
       \/ /\ existing' = [existing EXCEPT ![p] = <<[total |-> Cardinality(DOMAIN notes)]>>]
          /\ Goto(p, "get_stats_group")
          /\ Did(p, {"store"})
          /\ UNCHANGED result
    /\ UNCHANGED <<notes, sqlite_sequence, embedding_model, request, body,
                   reply, stream, deleted>>
    /\ UNCHANGED monitor

ByCategory(table) ==
    LET cats == {table[i].category : i \in DOMAIN table}
    IN  [c \in cats |-> Cardinality({i \in DOMAIN table : table[i].category = c})]

\* get_stats: SELECT category, COUNT(*) ... GROUP BY category
get_stats_group(p) ==
    /\ pc[p] = "get_stats_group"
    /\ \/ Raise(p, {})
       \/ /\ Return(p, ToolText([said |-> "Statistics",
                                 total |-> existing[p][1].total,
                                 by_category |-> ByCategory(notes)]))
          /\ UNCHANGED trace
    /\ UNCHANGED <<notes, sqlite_sequence, embedding_model, request, body,
                   existing, reply, stream, deleted>>
    /\ UNCHANGED monitor

\* ---------------------------------------------------------------- add_note
\* add_note after get_model: encode, INSERT, commit
add_note(p) ==
    /\ pc[p] = "add_note"
    /\ LET content == Args(p).content
           category == Get(Args(p), "category", "general")
           note_id == NextRowId(notes, sqlite_sequence)
       IN  \/ Raise(p, {}) /\ UNCHANGED <<notes, sqlite_sequence>>
           \/ Raise(p, {"store"}) /\ UNCHANGED <<notes, sqlite_sequence>>
           \/ /\ notes' = Insert(notes, note_id, Row(content, category, now, encode(content)))
              /\ sqlite_sequence' = note_id
              /\ Return(p, ToolText([said |-> "Added note", note_id |-> note_id,
                                     category |-> category, content |-> content]))
              /\ Did(p, {"store"})
    /\ UNCHANGED <<embedding_model, request, body, existing, reply, stream, deleted>>
    /\ UNCHANGED monitor

\* ------------------------------------------------------------- update_note
NotFound == Error(-32602, "Note not found")

\* update_note: SELECT category FROM notes WHERE id = ?
update_note(p) ==
    /\ pc[p] = "update_note"
    /\ LET note_id == Args(p).note_id
       IN  \/ Raise(p, {"store"}) /\ UNCHANGED existing
           \/ /\ note_id \notin DOMAIN notes
              /\ Return(p, NotFound)
              /\ Did(p, {"store"})
              /\ UNCHANGED existing
           \/ /\ note_id \in DOMAIN notes
              /\ existing' = [existing EXCEPT ![p] = <<[category |-> notes[note_id].category]>>]
              /\ Goto(p, "get_model")
              /\ Did(p, {"store"})
              /\ UNCHANGED result
    /\ UNCHANGED <<notes, sqlite_sequence, embedding_model, request, body,
                   reply, stream, deleted>>
    /\ UNCHANGED monitor

\* final_category = category or existing[0]
FinalCategory(args, row) ==
    IF TruthyStr(args, "category") THEN args.category ELSE row.category

\* update_note after get_model: encode, UPDATE ... WHERE id = ?, commit.  The
\* UPDATE changes the row when there is one and nothing otherwise.
update_write(p) ==
    /\ pc[p] = "update_write"
    /\ LET note_id == Args(p).note_id
           content == Args(p).content
           final_category == FinalCategory(Args(p), existing[p][1])
       IN  \/ Raise(p, {}) /\ UNCHANGED notes
           \/ /\ Raise(p, {"store"})
              /\ notes' = Uncommitted(notes, note_id,
                                      Row(content, final_category, now, encode(content)))
           \/ /\ notes' = IF note_id \in DOMAIN notes
                          THEN Update(notes, note_id,
                                      Row(content, final_category, now, encode(content)))
                          ELSE notes
              /\ Return(p, ToolText([said |-> "Updated note", note_id |-> note_id,
                                     category |-> final_category, content |-> content]))
              /\ Did(p, {"wrote"})
    /\ UNCHANGED <<sqlite_sequence, embedding_model, request, body, existing,
                   reply, stream, deleted>>
    /\ UNCHANGED monitor

\* ------------------------------------------------------------- delete_note
\* delete_note: SELECT content, category FROM notes WHERE id = ?
delete_note(p) ==
    /\ pc[p] = "delete_note"
    /\ LET note_id == Args(p).note_id
       IN  \/ Raise(p, {"store"}) /\ UNCHANGED existing
           \/ /\ note_id \notin DOMAIN notes
              /\ Return(p, NotFound)
              /\ Did(p, {"store"})
              /\ UNCHANGED existing
           \/ /\ note_id \in DOMAIN notes
              /\ existing' = [existing EXCEPT ![p] =
                    <<[content |-> notes[note_id].content,
                       category |-> notes[note_id].category]>>]
              /\ Goto(p, "delete_write")
              /\ Did(p, {"store"})
              /\ UNCHANGED result
    /\ UNCHANGED <<notes, sqlite_sequence, embedding_model, request, body,
                   reply, stream, deleted>>
    /\ UNCHANGED monitor

\* delete_note: DELETE FROM notes WHERE id = ?, commit
delete_write(p) ==
    /\ pc[p] = "delete_write"
    /\ LET note_id == Args(p).note_id
       IN  \/ Raise(p, {}) /\ UNCHANGED <<notes, deleted>>
           \/ /\ notes' = Delete(notes, note_id)
              /\ deleted' = deleted \cup {note_id}
              /\ Return(p, ToolText([said |-> "Deleted note", note_id |-> note_id,
                                     category |-> existing[p][1].category,
                                     content |-> existing[p][1].content]))
              /\ Did(p, {"wrote"})
    /\ UNCHANGED <<sqlite_sequence, embedding_model, request, body, existing,
                   reply, stream>>
    /\ UNCHANGED monitor

\* -------------------------------------------------------------------- main
requests == <<pc, request, body, result, existing, reply, stream, trace>>

\* run_check without its except clause, under a main without one: the
\* exception ends the process
CheckFailedUncaught ==
    /\ status' = "Failed"
    /\ boot' = "Exited"

\* An exception inside run_check's try block: 'Check failed' is printed,
\* run_check returns 1 and main goes on to create_app
CheckFailed ==
    /\ status' = "Failed"
    /\ boot' = "create_app"

\* main up to run_check's StableEmbeddingModel(): the constructor raises when
\* the model cannot be loaded
run_check ==
    /\ boot = "main"
    /\ \/ boot' = "load_calibration" /\ UNCHANGED status
       \/ CheckFailed
    /\ UNCHANGED <<store, embedding_model, requests, deleted, recal,
                   calibration_file, model_version, saved>>

\* check_consistency: saved = load_calibration().  json.load raises on a file
\* that does not hold a whole JSON document.
load_calibration ==
    /\ boot = "load_calibration"
    /\ IF ~calibration_file.exists
       THEN saved' = None /\ boot' = "compute_calibration" /\ UNCHANGED status
       ELSE IF "json" \in DOMAIN calibration_file
       THEN saved' = calibration_file.json /\ boot' = "compare" /\ UNCHANGED status
       ELSE CheckFailed /\ UNCHANGED saved
    /\ UNCHANGED <<store, embedding_model, requests, deleted, recal,
                   calibration_file, model_version>>

\* check_consistency, no baseline: compute_calibration(model), then
\* save_calibration's open(CALIBRATION_FILE, 'w'), which leaves the file empty
open_calibration ==
    /\ boot = "compute_calibration"
    /\ \/ /\ calibration_file' = Truncated
          /\ boot' = "save_calibration"
          /\ UNCHANGED status
       \/ CheckFailed /\ UNCHANGED calibration_file
    /\ UNCHANGED <<store, embedding_model, requests, deleted, recal, model_version, saved>>

\* save_calibration's json.dump and close, then the return of
\* (True, 'Initial calibration created')
save_calibration ==
    /\ boot = "save_calibration"
    /\ \/ /\ calibration_file' = Dumped(compute_calibration(model_version))
          /\ status' = "Initialized"
          /\ boot' = "create_app"
       \/ CheckFailed /\ UNCHANGED calibration_file
    /\ UNCHANGED <<store, embedding_model, requests, deleted, recal, model_version, saved>>

\* A check_consistency that saves compute_calibration(model) again when the
\* comparison falls below the threshold
compare_and_save ==
    /\ boot = "compare"
    /\ \/ /\ status' = check_consistency[model_version, saved]
          /\ boot' = "create_app"
          /\ calibration_file' =
                IF status' = "DriftDetected"
                THEN Dumped(compute_calibration(model_version))
                ELSE calibration_file
       \/ CheckFailed /\ UNCHANGED calibration_file
    /\ UNCHANGED <<store, embedding_model, requests, deleted, recal,
                   model_version, saved>>

\* check_consistency with a baseline: encode the phrases again, compare
compare ==
    /\ boot = "compare"
    /\ \/ /\ status' = check_consistency[model_version, saved]
          /\ boot' = "create_app"
       \/ CheckFailed
    /\ UNCHANGED <<store, embedding_model, requests, deleted, recal,
                   calibration_file, model_version, saved>>

\* create_app and app.run: the endpoint is registered and the server listens
create_app ==
    /\ boot = "create_app"
    /\ boot' = "Serving"
    /\ UNCHANGED <<store, embedding_model, requests, deleted, recal,
                   calibration_file, model_version, saved, status>>

\* The process is stopped between requests and started again, on the same
\* data directory, with the weights the model name resolves to by then
restart ==
    /\ boot = "Serving"
    /\ \A p \in Procs : pc[p] \in {"Idle", "Done", "Rejected"}
    /\ boot' = "main"
    /\ \E v \in Versions : model_version' = v
    /\ embedding_model' = "None"
    /\ pc' = [p \in Procs |-> "Idle"]
    /\ request' = [p \in Procs |-> NoRequest]
    /\ body' = [p \in Procs |-> GetBody]
    /\ result' = [p \in Procs |-> EmptyObj]
    /\ existing' = [p \in Procs |-> << >>]
    /\ reply' = [p \in Procs |-> << >>]
    /\ stream' = [p \in Procs |-> << >>]
    /\ trace' = [p \in Procs |-> {}]
    /\ saved' = None
    /\ status' = "None"
    /\ UNCHANGED <<store, deleted, calibration_file, recal>>

\* ------------------------------------------------------------- recalibrate
server == <<store, embedding_model, requests, deleted, model_version, boot, saved, status>>

\* recalibrate, run as its own process on the same data directory, up to
\* save_calibration: StableEmbeddingModel() and compute_calibration.  Nothing
\* catches an exception here: the process ends.
recalibrate ==
    /\ recal = "Idle"
    /\ \/ recal' = "save_calibration"
       \/ recal' = "Exited"
    /\ UNCHANGED <<server, calibration_file>>

\* save_calibration's open(CALIBRATION_FILE, 'w'): the file is there and empty
recalibrate_open ==
    /\ recal = "save_calibration"
    /\ calibration_file' = Truncated
    /\ recal' = "json.dump"
    /\ UNCHANGED server

\* save_calibration's json.dump and the close that ends the with block
recalibrate_dump ==
    /\ recal = "json.dump"
    /\ calibration_file' = Dumped(compute_calibration(model_version))
    /\ recal' = "Exited"
    /\ UNCHANGED server

\* ------------------------------------------------------------ specification
Step(p, Reqs, Bs) ==
    \/ Receive(p, Reqs)
    \/ mcp_sse(p)
    \/ generate(p, Bs)
    \/ handle_mcp_request(p)
    \/ get_model(p)
    \/ load_model(p)
    \/ search_notes(p)
    \/ get_stats(p)
    \/ get_stats_group(p)
    \/ add_note(p)
    \/ update_note(p)
    \/ update_write(p)
    \/ delete_note(p)
    \/ delete_write(p)
    \/ yield_response(p)

\* The credentials the dispatcher and the store are checked under: the key in
\* either place, or none at all
ByApiKey == [args |-> [api_key |-> API_KEY], headers |-> EmptyObj]
ByBearer == [args |-> EmptyObj, headers |-> [Authorization |-> BearerHeader(API_KEY)]]
CoreRequests == {ByApiKey, ByBearer, NoRequest}

\* The bodies the auth guard is checked over: one per handler
CoreBodies ==
    {GetBody, [kind |-> "malformed", json |-> [method |-> "initialize"]]}
    \cup [kind : {"object"}, json :
            {[method |-> "tools/call", params |-> [name |-> "neural_stats"]]}
            \cup Calls("search_neural_memory", {[query |-> "a"]})
            \cup Calls("add_note", {[content |-> "a"]})
            \cup Calls("update_note", {[note_id |-> 1, content |-> "b"]})
            \cup Calls("delete_note", {[note_id |-> 1]})]

\* Requests served one at a time: every body, under the core credentials
Next == \E p \in SeqProcs : Step(p, CoreRequests, Bodies)
Spec == Init /\ [][Next]_vars

\* Requests served one at a time, every method and every tool argument (the
\* request id left out), where a thread that has taken a request runs its
\* handler on: the provider and the database return or raise, they do not hang
NoIdBodies == {b \in Bodies : ~Has(b.json, "id")}
Handle(p) == Step(p, {}, NoIdBodies)
FairNext == \E p \in SeqProcs : Step(p, {ByApiKey, NoRequest}, NoIdBodies)
FairSpec == Init /\ [][FairNext]_vars /\ \A p \in SeqProcs : WF_vars(Handle(p))

\* Requests served one at a time: every credential, over the core bodies
AuthNext == \E p \in SeqProcs : Step(p, HttpRequests, CoreBodies)
AuthSpec == Init /\ [][AuthNext]_vars

\* Searches served one at a time against a store left by earlier runs of the
\* server: any rows 1..MaxRows, each with the embedding of its content, the
\* model not loaded yet; every limit below, inside and above 1..20
StoredTexts == {"", "a", "a.", "b"}
SearchLimits == {-1, 0, 1, 2, 21}
StoredTables ==
    UNION {[S -> {Row(c, "general", now, encode(c)) : c \in StoredTexts}] :
              S \in SUBSET (1..MaxRows)}
SearchBodies ==
    [kind : {"object"}, json :
        Calls("search_neural_memory",
              {EmptyObj} \cup [query : Queries] \cup [query : Queries, limit : SearchLimits])]
SearchInit ==
    /\ notes \in StoredTables
    /\ sqlite_sequence = MaxRows
    /\ embedding_model = "None"
    /\ pc = [p \in Procs |-> "Idle"]
    /\ request = [p \in Procs |-> NoRequest]
    /\ body = [p \in Procs |-> GetBody]
    /\ result = [p \in Procs |-> EmptyObj]
    /\ existing = [p \in Procs |-> << >>]
    /\ reply = [p \in Procs |-> << >>]
    /\ stream = [p \in Procs |-> << >>]
    /\ trace = [p \in Procs |-> {}]
    /\ deleted = {}
    /\ calibration_file = Dumped(compute_calibration("v1"))
    /\ model_version = "v1"
    /\ boot = "Serving"
    /\ saved = Dumped(compute_calibration("v1")).json
    /\ status = "Consistent"
    /\ recal = "Idle"
SearchStep(p) ==
    \/ Receive(p, {ByApiKey})
    \/ mcp_sse(p)
    \/ generate(p, SearchBodies)
    \/ handle_mcp_request(p)
    \/ get_model(p)
    \/ load_model(p)
    \/ search_notes(p)
    \/ yield_response(p)
SearchNext == \E p \in SeqProcs : SearchStep(p)
SearchSpec == SearchInit /\ [][SearchNext]_vars

\* The server from the start of main, over every baseline file an earlier run
\* can have left and every version of the weights, then serving stats
\* requests; main's code runs on (the provider and the file system return or
\* raise), and so does a thread that has taken a request
BootBodies == {[kind |-> "object",
                json |-> [method |-> "tools/call", params |-> [name |-> "neural_stats"]]]}
BootInit ==
    /\ notes = << >>
    /\ sqlite_sequence = 0
    /\ embedding_model = "None"
    /\ pc = [p \in Procs |-> "Idle"]
    /\ request = [p \in Procs |-> NoRequest]
    /\ body = [p \in Procs |-> GetBody]
    /\ result = [p \in Procs |-> EmptyObj]
    /\ existing = [p \in Procs |-> << >>]
    /\ reply = [p \in Procs |-> << >>]
    /\ stream = [p \in Procs |-> << >>]
    /\ trace = [p \in Procs |-> {}]
    /\ deleted = {}
    /\ calibration_file \in Files
    /\ model_version \in Versions
    /\ boot = "main"
    /\ saved = None
    /\ status = "None"
    /\ recal = "Idle"
main ==
    \/ run_check
    \/ load_calibration
    \/ open_calibration
    \/ save_calibration
    \/ compare
    \/ create_app
BootHandle(p) ==
    \/ mcp_sse(p)
    \/ generate(p, BootBodies)
    \/ handle_mcp_request(p)
    \/ get_stats(p)
    \/ get_stats_group(p)
    \/ yield_response(p)
BootNext ==
    \/ main
    \/ restart
    \/ \E p \in SeqProcs : Receive(p, {ByApiKey, NoRequest}) \/ BootHandle(p)
BootSpec ==
    /\ BootInit /\ [][BootNext]_vars
    /\ WF_vars(main)
    /\ \A p \in SeqProcs : WF_vars(BootHandle(p))

\* Two request threads of the threaded server, interleaved at every access to
\* the model global and to the database: one call of each tool, the writes
\* aimed at note 1
ConcBodies ==
    [kind : {"object"}, json :
        {[method |-> "tools/call", params |-> [name |-> "neural_stats"]]}
        \cup Calls("search_neural_memory", {[query |-> "a"]})
        \cup Calls("add_note", {[content |-> "a"]})
        \cup Calls("update_note", {[note_id |-> 1, content |-> "b", category |-> "work"],
                                   [note_id |-> 1, content |-> "a"]})
        \cup Calls("delete_note", {[note_id |-> 1]})]
ConcNext == \E p \in Procs : Step(p, {ByApiKey}, ConcBodies)
ConcSpec == Init /\ [][ConcNext]_vars

\* The server starting while embedding_check.py --recalibrate runs on the same
\* data directory, over every whole baseline file an earlier run can have
\* left (or none) and every version of the weights
RecalInit ==
    /\ notes = << >>
    /\ sqlite_sequence = 0
    /\ embedding_model = "None"
    /\ pc = [p \in Procs |-> "Idle"]
    /\ request = [p \in Procs |-> NoRequest]
    /\ body = [p \in Procs |-> GetBody]
    /\ result = [p \in Procs |-> EmptyObj]
    /\ existing = [p \in Procs |-> << >>]
    /\ reply = [p \in Procs |-> << >>]
    /\ stream = [p \in Procs |-> << >>]
    /\ trace = [p \in Procs |-> {}]
    /\ deleted = {}
    /\ calibration_file \in Files \ {Truncated}
    /\ model_version \in Versions
    /\ boot = "main"
    /\ saved = None
    /\ status = "None"
    /\ recal = "Idle"
RecalNext ==
    \/ main
    \/ recalibrate
    \/ recalibrate_open
    \/ recalibrate_dump
RecalSpec == RecalInit /\ [][RecalNext]_vars

\* ===================================================================== claims
\* The request carries, as api_key or as a Bearer token, a credential whose
\* SHA-256 hash is the hash of the configured secret.
CarriesValid(req) ==
    \/ /\ Has(req.args, "api_key")
       /\ Sha256(req.args.api_key) = API_KEY_HASH
    \/ /\ Has(req.headers, "Authorization")
       /\ req.headers.Authorization.scheme = "Bearer "
       /\ Sha256(req.headers.Authorization.rest) = API_KEY_HASH

Handled(p) == pc[p] \notin {"Idle", "Received"}

\* C1: every request that carries a valid credential in the api_key parameter
\* or in the Bearer header passes verify_auth and goes on to dispatch,
\* whatever the other place holds.
C1_EitherChannelAuthorizes ==
    \A p \in Procs :
        Handled(p) /\ CarriesValid(request[p])
            => pc[p] # "Rejected" /\ "authorized" \in trace[p]

\* C2: a request with no credential that hashes to the secret is answered 401
\* {error: 'Unauthorized'}, never reaches handle_mcp_request and leaves the
\* note store as it was, whatever was served before it.
C2_RejectedState ==
    \A p \in Procs :
        Handled(p) /\ ~CarriesValid(request[p])
            => /\ pc[p] = "Rejected"
               /\ reply[p] = <<[status |-> 401, body |-> [error |-> "Unauthorized"]]>>
               /\ stream[p] = << >>
               /\ trace[p] = {}
C2_RejectedStep ==
    \A p \in Procs :
        pc[p] = "Received" /\ ~CarriesValid(request[p]) /\ pc'[p] # pc[p]
            => store' = store /\ embedding_model' = embedding_model
C2_UnauthorizedIs401 == []C2_RejectedState /\ [][C2_RejectedStep]_vars

\* C2's case: a request with a wrong key is rejected after earlier requests
\* have put a note in the store.
C2_Witness ==
    \E p \in Procs :
        /\ pc[p] = "Rejected"
        /\ Has(request[p].args, "api_key") /\ request[p].args.api_key = WrongKey
        /\ Has(request[p].headers, "Authorization")
        /\ DOMAIN notes # {}

Envelopes(p) == {stream[p][k] : k \in 1..Len(stream[p])}

\* C3: every envelope of an authorized request, on success and on every error
\* path, carries the id the caller put in the request.
C3_EnvelopeCarriesCallerId ==
    \A p \in Procs :
        Has(body[p].json, "id") => \A e \in Envelopes(p) : e.id = body[p].json.id

\* C4: every envelope has exactly one of result and error at its top level:
\* {id, error: {code, message}} when dispatch ended in an error, {id, result}
\* when it succeeded.
C4_ResultXorError ==
    \A p \in Procs : \A e \in Envelopes(p) :
        /\ Has(e, "result") # Has(e, "error")
        /\ Has(e, "result") => ~IsError(e.result)

InFlight == {"Authorized", "Routed", "get_model", "load_model", "search_notes",
             "get_stats", "get_stats_group", "add_note", "update_note",
             "update_write", "delete_note", "delete_write", "Emit"}

\* C5, as claimed: every authorized request goes Received -> Authorized ->
\* Routed -> terminal and emits exactly one envelope.
C5_EveryAuthorizedRequestRouted ==
    \A p \in Procs :
        pc[p] = "Done" => "routed" \in trace[p] /\ Len(stream[p]) = 1

\* C5, amended: every authorized request emits exactly one envelope, never
\* zero and never two, whatever the method, the tool arguments and the
\* exceptions of the store and the provider; it passes Routed when it is a
\* GET or its body is a JSON object, and otherwise goes from Authorized
\* straight to the terminal state with the one error envelope.
C5_EnvelopeCount ==
    \A p \in Procs :
        /\ pc[p] \in InFlight => stream[p] = << >> /\ "authorized" \in trace[p]
        /\ pc[p] = "Done" =>
            /\ Len(stream[p]) = 1
            /\ "authorized" \in trace[p]
            /\ ("routed" \in trace[p]) # ("parse_failed" \in trace[p])
            /\ "routed" \in trace[p] <=> body[p].kind \in {"GET", "object"}
            /\ "routed" \in trace[p] => "dispatched" \in trace[p]
        /\ pc[p] \in {"Idle", "Received", "Rejected"} => stream[p] = << >>
C5_ExactlyOneEnvelope ==
    /\ []C5_EnvelopeCount
    /\ \A p \in SeqProcs : (pc[p] = "Authorized") ~> (pc[p] = "Done")

\* C5's case: a routed request whose tool raised is done, with its one envelope.
C5_Witness ==
    \E p \in Procs :
        /\ pc[p] = "Done"
        /\ {"routed", "raised", "store"} \subseteq trace[p]
        /\ Len(stream[p]) = 1

SupportedMethods == {"initialize", "tools/list", "tools/call"}
Touched(p) == trace[p] \cap {"provider", "store", "wrote"}

\* C6: a method other than initialize, tools/list and tools/call yields the
\* error -32601 in every store state and changes nothing in the store; the
\* three supported methods never yield -32601.
C6_DispatchedState ==
    \A p \in Procs :
        "dispatched" \in trace[p] =>
            IF Method(p) \notin SupportedMethods
            THEN /\ pc[p] \in {"Emit", "Done"}
                 /\ IsError(result[p]) /\ Code(result[p]) = -32601
                 /\ Touched(p) = {}
                 /\ pc[p] = "Done" => stream[p] = <<Envelope(ReqId(p), result[p])>>
            ELSE ~(IsError(result[p]) /\ Code(result[p]) = -32601)
C6_UnknownMethodStep ==
    \A p \in Procs :
        /\ pc[p] \in {"Routed", "Emit"}
        /\ Method(p) \notin SupportedMethods
        /\ pc'[p] # pc[p]
        => store' = store
C6_UnknownMethod == []C6_DispatchedState /\ [][C6_UnknownMethodStep]_vars

\* C6's case: an unknown method is answered -32601 while the store holds a note.
C6_Witness ==
    \E p \in Procs :
        /\ pc[p] = "Done"
        /\ Method(p) = "resources/list"
        /\ Code(stream[p][1].result) = -32601
        /\ DOMAIN notes # {}

\* A tools/call of a known tool whose arguments lack a required one
MissingRequired(p) ==
    /\ Method(p) = "tools/call" /\ IsDict(Params(p)) /\ IsDict(Args(p))
    /\ \/ Tool(p) = "search_neural_memory" /\ ~Has(Args(p), "query")
       \/ Tool(p) = "add_note" /\ ~Has(Args(p), "content")
       \/ Tool(p) = "update_note" /\ (~Has(Args(p), "note_id") \/ ~Has(Args(p), "content"))
       \/ Tool(p) = "delete_note" /\ ~Has(Args(p), "note_id")

\* C7: a tools/call of a known tool with a required argument missing ends in
\* the error -32602, with no store operation and no embedding call made for it.
C7_MissingArgumentRejected ==
    \A p \in Procs :
        pc[p] \in {"Emit", "Done"} /\ MissingRequired(p) /\ "raised" \notin trace[p]
            => /\ IsError(result[p]) /\ Code(result[p]) = -32602
               /\ Touched(p) = {}

\* C8: when the store or the provider raises while an authorized request is
\* handled, the caller is told error -32603, and the exception does not get
\* past handle_mcp_request (generate's own except branch is not taken).
C8_ExceptionIsInternalError ==
    \A p \in Procs :
        "raised" \in trace[p]
            => /\ pc[p] \in {"Emit", "Done"}
               /\ IsError(result[p]) /\ Code(result[p]) = -32603
               /\ "parse_failed" \notin trace[p]
               /\ pc[p] = "Done" =>
                    /\ Len(stream[p]) = 1
                    /\ Has(stream[p][1], "result")
                    /\ Code(stream[p][1].result) = -32603

\* C8's case: the database raised inside a tool, after the provider was used,
\* and the envelope is out.
C8_Witness ==
    \E p \in Procs :
        /\ pc[p] = "Done"
        /\ {"raised", "provider", "store"} \subseteq trace[p]

\* C9: once delete_note(i) has succeeded the store holds no note i, every
\* later update_note(i, ...) and delete_note(i) that looks the note up gets
\* the not-found error -32602, and no later add_note is given id i.
C9_DeletedIsGone ==
    /\ deleted \cap DOMAIN notes = {}
    /\ \A p \in Procs :
        /\ pc[p] \in {"Emit", "Done"}
        /\ IsCall(p, "update_note") \/ IsCall(p, "delete_note")
        /\ IsDict(Args(p)) /\ Has(Args(p), "note_id")
        /\ Args(p).note_id \in deleted
        /\ "wrote" \notin trace[p]
        => /\ IsError(result[p])
           /\ Code(result[p]) = -32602 \/ "raised" \in trace[p]
C9_LookupStep ==
    \A p \in Procs :
        /\ pc[p] \in {"update_note", "delete_note"}
        /\ Args(p).note_id \in deleted
        /\ pc'[p] # pc[p]
        => /\ pc'[p] = "Emit"
           /\ result'[p] = NotFound \/ "raised" \in trace'[p]
C9_DeleteThenNotFound == []C9_DeletedIsGone /\ [][C9_LookupStep]_vars

\* C9's case: note 1 was deleted, a later add_note made note 2, and an
\* update_note of note 1 after that was told not found.
C9_Witness ==
    \E p \in Procs :
        /\ pc[p] = "Emit"
        /\ IsCall(p, "update_note")
        /\ result[p] = NotFound
        /\ Args(p).note_id \in deleted
        /\ DOMAIN notes # {}

\* C10: a successful update_note(id, content, category) keeps the note's id,
\* sets its content, sets its category to the one supplied (any string) or,
\* when none is supplied, keeps the prior one, and changes no other note.
C10_UpdateStep ==
    \A p \in Procs :
        pc[p] = "update_write" /\ pc'[p] = "Emit" /\ "raised" \notin trace'[p]
            => LET id == Args(p).note_id
               IN  /\ DOMAIN notes' = DOMAIN notes
                   /\ id \in DOMAIN notes'
                   /\ notes'[id].content = Args(p).content
                   /\ notes'[id].category =
                        IF Has(Args(p), "category") THEN Args(p).category
                        ELSE notes[id].category
                   /\ \A j \in DOMAIN notes \ {id} : notes'[j] = notes[j]
C10_UpdateSetsContentAndCategory == [][C10_UpdateStep]_vars

\* A search that returned its list: the thread, past search_notes, not raised
Searched(p) ==
    /\ pc[p] \in {"Emit", "Done"}
    /\ IsCall(p, "search_neural_memory") /\ IsDict(Args(p))
    /\ "raised" \notin trace[p]
Top(p) == result[p].content[1].text.top
Limit(p) == Get(Args(p), "limit", 5)

\* C11: for every store, query and integer limit (0, negative and above 20
\* included) search returns a list, with no similarity below 0.4 in it and
\* no more results than limit (for a limit below 1: no more than the one
\* result the smallest clamped limit allows).
C11_SearchWithinLimit ==
    \A p \in Procs :
        Searched(p) =>
            /\ ~IsError(result[p])
            /\ \A k \in 1..Len(Top(p)) : Top(p)[k].similarity >= 4000
            /\ Len(Top(p)) <= IF Limit(p) >= 1 THEN Limit(p) ELSE 1

\* sim(q, e1) > sim(q, e2) and sim(q, e1) = sim(q, e2) for vectors at less
\* than a right angle from q, on the squares (the norm of q cancels)
MoreSimilar(q, e1, e2) ==
    dot(q, e1) * dot(q, e1) * dot(e2, e2) > dot(q, e2) * dot(q, e2) * dot(e1, e1)
AsSimilar(q, e1, e2) ==
    dot(q, e1) * dot(q, e1) * dot(e2, e2) = dot(q, e2) * dot(q, e2) * dot(e1, e1)

\* Note i ranks above note j for the query vector q
RanksAbove(q, i, j) ==
    LET ei == notes[i].embedding_vector
        ej == notes[j].embedding_vector
    IN  MoreSimilar(q, ei, ej) \/ (AsSimilar(q, ei, ej) /\ i < j)

\* C12: the list a search returns is in order of cosine similarity, highest
\* first, notes of equal similarity in ascending id order, and it is the
\* first limit elements of that order over all notes of similarity at least
\* 0.4: every match left out ranks below every match returned.
C12_RankedBySimilarity ==
    \A p \in Procs :
        Searched(p) /\ Limit(p) >= 0 =>
            LET q == encode(Get(Args(p), "query", ""))
                top == Top(p)
                returned == {top[k].id : k \in 1..Len(top)}
                matches == {i \in DOMAIN notes :
                               AtLeastThreshold(q, notes[i].embedding_vector)}
            IN  /\ returned \subseteq matches
                /\ Len(top) = Min(Limit(p), Cardinality(matches))
                /\ \A a, b \in 1..Len(top) : a < b => RanksAbove(q, top[a].id, top[b].id)
                /\ \A r \in returned : \A m \in matches \ returned : RanksAbove(q, r, m)

\* The startup check is over
Checked == boot \in {"create_app", "Serving"}

\* C13: check_consistency with no persisted baseline persists a baseline for
\* the fixed phrases and reports success (Initialized); with a persisted
\* baseline it reports Consistent exactly when every one of the 3 fixed
\* phrases, encoded again, is at similarity 0.99 or more from the baseline
\* vector at its index (the minimum is at least 0.99), and DriftDetected
\* otherwise; a baseline written by the same weights is found Consistent.
C13_CheckReportsMinimum ==
    Checked /\ status # "Failed" =>
        IF saved = None
        THEN /\ status = "Initialized"
             /\ calibration_file =
                    [exists |-> TRUE,
                     json |-> [phrases |-> CALIBRATION_PHRASES,
                               embeddings |-> <<encode_phrase(model_version, 1),
                                                encode_phrase(model_version, 2),
                                                encode_phrase(model_version, 3)>>]]
        ELSE /\ status \in {"Consistent", "DriftDetected"}
             /\ status = "Consistent" <=>
                    \A i \in 1..3 :
                        cosine_similarity(encode_phrase(model_version, i),
                                          saved.embeddings[i]) >= 9900
             /\ (\A i \in 1..3 : saved.embeddings[i] = encode_phrase(model_version, i))
                    => status = "Consistent"

\* C13's case: the weights moved the second phrase only, the other two still
\* match the baseline, and the check reports drift.
C13_Witness ==
    /\ boot = "Serving"
    /\ status = "DriftDetected"
    /\ saved # None
    /\ cosine_similarity(encode_phrase(model_version, 1), saved.embeddings[1]) = 10000
    /\ cosine_similarity(encode_phrase(model_version, 2), saved.embeddings[2]) < 9900
    /\ cosine_similarity(encode_phrase(model_version, 3), saved.embeddings[3]) = 10000

\* C14: whatever the startup check does (Initialized, Consistent,
\* DriftDetected, or an exception from the model load or from the baseline
\* file), main goes on: the process does not exit, the server comes to serve
\* requests, and every request received after that is answered.
C14_StartupReachesServing ==
    /\ [](boot # "Exited")
    /\ (boot = "main") ~> (boot = "Serving")
    /\ \A st \in {"Initialized", "Consistent", "DriftDetected", "Failed"} :
          (Checked /\ status = st) ~> (boot = "Serving" /\ status = st)
    /\ \A p \in SeqProcs : (pc[p] = "Received") ~> (pc[p] \in {"Done", "Rejected"})

\* C14's case: the check failed on a baseline file cut short, and a request
\* was served all the same.
C14_Witness ==
    /\ boot = "Serving"
    /\ status = "Failed"
    /\ calibration_file = Truncated
    /\ \E p \in Procs : pc[p] = "Done" /\ Len(stream[p]) = 1

\* C15: under any interleaving of concurrent requests that use the provider
\* for the first time, StableEmbeddingModel is constructed at most once per
\* process: a construction happens only while no instance exists yet, so
\* every caller of get_model obtains the one instance.
C15_ConstructStep ==
    \A p \in Procs :
        /\ pc[p] = "load_model"
        /\ pc'[p] # pc[p]
        /\ "raised" \notin trace'[p]
        => embedding_model = "None"
C15_ConstructedOnce == [][C15_ConstructStep]_vars

\* The row a thread's add_note or update_note call writes
Written(p) ==
    [content |-> Args(p).content,
     category |-> IF pc[p] = "add_note" THEN Get(Args(p), "category", "general")
                  ELSE IF Has(Args(p), "category") /\ Args(p).category # ""
                       THEN Args(p).category
                       ELSE existing[p][1].category,
     timestamp |-> now,
     embedding_vector |-> encode(Args(p).content)]

\* C16: under any interleaving of update_note with concurrent reads and other
\* writes to the same note, each note holds at every moment a content,
\* category, embedding and timestamp written together by one add_note or
\* update_note call, and a search sees each note whole: the content, category
\* and similarity it reports for a note are those of one row of the table.
C16_WriteStep ==
    \A i \in DOMAIN notes' :
        i \notin DOMAIN notes \/ notes'[i] # notes[i] =>
            \E p \in Procs :
                /\ pc[p] \in {"add_note", "update_write"}
                /\ pc'[p] = "Emit"
                /\ notes'[i] = Written(p)
C16_ReadStep ==
    \A p \in Procs :
        pc[p] = "search_notes" /\ pc'[p] = "Emit" /\ "raised" \notin trace'[p] =>
            LET top == result'[p].content[1].text.top
                q == encode(Get(Args(p), "query", ""))
            IN  \A k \in 1..Len(top) :
                    /\ top[k].id \in DOMAIN notes
                    /\ top[k].content = notes[top[k].id].content
                    /\ top[k].category = notes[top[k].id].category
                    /\ top[k].similarity = similarity[q, encode(top[k].content)]
C16_NoTornNote == [][C16_WriteStep /\ C16_ReadStep]_vars

\* C16's case: two update_note calls on note 1 overlapped, both wrote, and the
\* note is the row of one of them.
C16_Witness ==
    \E p, q \in Procs :
        /\ p # q
        /\ pc[p] = "Emit" /\ pc[q] = "Emit"
        /\ IsCall(p, "update_note") /\ IsCall(q, "update_note")
        /\ "wrote" \in trace[p] /\ "wrote" \in trace[q]
        /\ Args(p).content # Args(q).content
        /\ 1 \in DOMAIN notes
        /\ notes[1].content = Args(p).content

\* C18: in every reachable store state, after any sequence of successful and
\* failed add_note, update_note and delete_note calls, each stored note has
\* an embedding and it is encode(the note's current content).
C18_EmbeddingOfContent ==
    \A i \in DOMAIN notes :
        /\ "embedding_vector" \in DOMAIN notes[i]
        /\ notes[i].embedding_vector = encode(notes[i].content)

\* C18's case: after an add, a delete and a failed call, an update_note has
\* given note 2 a content whose embedding is not that of the content added.
C18_Witness ==
    \E p \in Procs :
        /\ pc[p] = "Emit"
        /\ IsCall(p, "update_note")
        /\ "wrote" \in trace[p]
        /\ Args(p).note_id = 2
        /\ 1 \in deleted
        /\ 2 \in DOMAIN notes
        /\ notes[2].content = "b"
        /\ notes[2].embedding_vector = <<0, 1>>

\* The ids given so far: those of the notes in the store and of the notes
\* deleted from it
Assigned == DOMAIN notes \cup deleted

\* C19: every successful add_note assigns one new id, strictly greater than
\* every id assigned before it, ids of deleted notes included, and reports
\* it; on an empty, freshly initialised store it assigns 1.
C19_AddStep ==
    \A p \in Procs :
        pc[p] = "add_note" /\ pc'[p] = "Emit" /\ "raised" \notin trace'[p] =>
            \E n \in DOMAIN notes' :
                /\ DOMAIN notes' = DOMAIN notes \cup {n}
                /\ \A i \in Assigned : n > i
                /\ result'[p].content[1].text.note_id = n
                /\ Assigned = {} /\ sqlite_sequence = 0 => n = 1
C19_IdsOnlyFromAdd ==
    \A i \in DOMAIN notes' \ DOMAIN notes :
        \E p \in Procs : pc[p] = "add_note" /\ pc'[p] = "Emit"
C19_MonotonicIds == [][C19_AddStep /\ C19_IdsOnlyFromAdd]_vars

\* C19's case: note 1 was added and deleted, and the next add_note was given
\* id 2.
C19_Witness ==
    \E p \in Procs :
        /\ pc[p] = "Emit"
        /\ IsCall(p, "add_note")
        /\ ~IsError(result[p])
        /\ result[p].content[1].text.note_id = 2
        /\ deleted = {1}
        /\ DOMAIN notes = {2}

\* C20: a write that ends in an error leaves the note store as it was: the
\* step in which add_note, update_note or delete_note returns an error
\* (validation, not found, or an exception) changes no note, and the store
\* changes only in the step in which a write returns its success.
C20_ErrorStep ==
    \A p \in Procs :
        pc[p] # "Emit" /\ pc'[p] = "Emit" /\ IsError(result'[p]) => store' = store
C20_ChangeStep ==
    store' # store =>
        \E p \in Procs :
            /\ pc[p] \in {"add_note", "update_write", "delete_write"}
            /\ pc'[p] = "Emit"
            /\ ~IsError(result'[p])
C20_FailedWriteChangesNothing == [][C20_ErrorStep /\ C20_ChangeStep]_vars

\* C20's case: delete_note of an id that is not in the store has been refused
\* while the store holds a note.
C20_Witness ==
    \E p \in Procs :
        /\ pc[p] = "Emit"
        /\ IsCall(p, "delete_note")
        /\ result[p] = NotFound
        /\ DOMAIN notes # {}
        /\ Args(p).note_id \notin DOMAIN notes

\* C17: when recalibrate runs concurrently with a consistency check, what
\* load_calibration reads is no file or one whole baseline, the old one or
\* the new one: never an empty, truncated or partly written file.
C17_LoadStep ==
    boot = "load_calibration" /\ boot' # boot =>
        \/ ~calibration_file.exists /\ saved' = None
        \/ /\ calibration_file.exists
           /\ "json" \in DOMAIN calibration_file
           /\ calibration_file.json \in Baselines
           /\ saved' = calibration_file.json
C17_WholeBaselineRead == [][C17_LoadStep]_vars

\* C21: the baseline file is written only by a consistency check that found
\* no baseline and by recalibrate.  A check that found a baseline leaves the
\* file as it is whatever status it reports, drift included; recalibrate
\* writes whatever the file holds; and every baseline written has the fixed
\* phrases in their order with one embedding per phrase.
C21_WellFormed(baseline) ==
    /\ baseline.phrases = CALIBRATION_PHRASES
    /\ Len(baseline.embeddings) = Len(baseline.phrases)
    /\ Len(baseline.phrases) = 3
C21_CheckWithoutBaseline ==
    /\ boot \in {"compute_calibration", "save_calibration"}
    /\ boot' # boot
    /\ saved = None
C21_Recalibrate ==
    /\ recal \in {"save_calibration", "json.dump"}
    /\ recal' # recal
C21_WriteStep ==
    calibration_file' # calibration_file =>
        /\ C21_CheckWithoutBaseline \/ C21_Recalibrate
        /\ "json" \in DOMAIN calibration_file' =>
              /\ C21_WellFormed(calibration_file'.json)
              /\ calibration_file' = Dumped(compute_calibration(model_version))
C21_CheckWithBaselineStep ==
    boot = "compare" /\ boot' # boot =>
        /\ saved # None
        /\ calibration_file' = calibration_file
C21_OverwriteStep ==
    /\ recal = "save_calibration" /\ recal' # recal =>
          calibration_file' = Truncated
    /\ recal = "json.dump" /\ recal' # recal =>
          calibration_file' = Dumped(compute_calibration(model_version))
C21_Unconditional ==
    /\ recal = "save_calibration" => ENABLED recalibrate_open
    /\ recal = "json.dump" => ENABLED recalibrate_dump
C21_BaselineWriters ==
    /\ []C21_Unconditional
    /\ [][C21_WriteStep /\ C21_CheckWithBaselineStep /\ C21_OverwriteStep]_vars

\* C21's case: the check found a baseline, reported drift, and the file still
\* holds the baseline it read.
C21_Witness ==
    /\ status = "DriftDetected"
    /\ saved # None
    /\ saved # compute_calibration(model_version)
    /\ calibration_file = Dumped(saved)

\* C22: under any interleaving of concurrent update_note and delete_note
\* calls on one note id, update_note returns its success response only if
\* its write took effect: when its write commits the store holds that note
\* with the content it wrote, and the note is not one that a delete removed
\* after the update's SELECT found it.
C22_UpdateStep ==
    \A p \in Procs :
        pc[p] = "update_write" /\ pc'[p] = "Emit" /\ ~IsError(result'[p]) =>
            /\ Args(p).note_id \in DOMAIN notes'
            /\ notes'[Args(p).note_id].content = Args(p).content
            /\ Args(p).note_id \notin deleted'
C22_UpdateSuccessMeansWritten == [][C22_UpdateStep]_vars

====
